---- MODULE Spec2Model ----
(***************************************************************************)
(* CameraController (naturewatch_camera_server): the configuration         *)
(* setters and their persisted record, the capture loop thread with its    *)
(* fault recovery, stop(), the circular video buffer controls and the      *)
(* closest-exposure lookup.                                                *)
(***************************************************************************)
EXTENDS Integers, Sequences, FiniteSets, TLC

VARIABLES
    config,            \* self.config: the in-memory settings dict
    file,              \* content of <data_path>/config.json; <<>> is an empty file
    resolution,        \* self.resolution
    LED,               \* self.LED
    timestamp,         \* self.timestamp (0 / 1)
    sharpness_mode,    \* self.sharpness_mode
    sharpness_val,     \* self.sharpness_val
    exposure_mode,     \* self.exposure_mode
    rotated_camera,    \* self.rotated_camera
    frame_duration,    \* self.frame_duration
    video_buffer_size, \* self.video_buffer_size
    camera,            \* self.camera: a session id, 0 is None
    sess,              \* the Picamera2 objects created so far, by id
    gpio16,            \* level of GPIO pin 16 (the LED)
    image,             \* self.image: "None", "raw" (not stamped) or "stamped"
    stop_event,        \* self._stop_event
    loopPc,            \* position of the capture loop thread (run); "idle" before
                       \* start(), "constructing" while __init__ runs
    stopPc,            \* position of the thread executing stop()
    stops,             \* stop() calls that have returned or raised, with outcome
    fileoutput,        \* self.encoder.output.fileoutput, "None" or a target
    recording,         \* self.encoder.output.recording (CircularOutput armed)
    streaming,         \* start_video_stream called and not yet stop_video_stream / stop
    faults,            \* hardware faults injected so far
    write_fails,       \* writes of config.json that failed so far
    capture_faults,    \* exceptions caught by run's handler so far
    reinits,           \* initialise_picamera calls made by run's handler so far
    frames,            \* frames published by run since the last handled exception
    last,              \* the most recent caller operation and what it did
    probe,             \* input / result of the pure functions under check
    rotCall,           \* the thread executing set_camera_rotation step by step:
                       \* its position, its argument, calls begun so far
    md_frame,          \* the frame the latest get_md_image call returned
    af_enabled,        \* self.af_enabled
    af,                \* a run_autofocus call: its locals and the lens
    main,              \* __main__: its position, the startup fault, e, app
    exposure_request,  \* arguments of the latest set_exposure call while manual
    race               \* two caller threads inside set_LED and set_TimestampMode

vars == <<config, file, resolution, LED, timestamp, sharpness_mode, sharpness_val,
          exposure_mode, rotated_camera, frame_duration, video_buffer_size,
          camera, sess, gpio16, image, stop_event, loopPc, stopPc, stops,
          fileoutput, recording, streaming, faults, write_fails, capture_faults, reinits,
          frames, last, probe, rotCall, md_frame, af_enabled, af, main,
          exposure_request, race>>

settingVars == <<resolution, LED, timestamp, sharpness_mode, sharpness_val,
                 exposure_mode, rotated_camera, frame_duration, video_buffer_size>>
threadVars == <<image, stop_event, loopPc, stopPc, stops, capture_faults, reinits, frames>>
videoVars == <<fileoutput, recording, streaming>>
auxVars == <<rotCall, md_frame, af_enabled, af, main, race>>

----------------------------------------------------------------------------
(* Bounds of the model *)

MaxWriteFails == 1   \* failed writes of config.json in one run
MaxStops == 2        \* stop() calls in one run
MaxFaults == 2       \* hardware faults injected in one run
MaxRotations == 1    \* set_camera_rotation calls that change the rotation in one run
MaxRaceCalls == 1    \* calls each of the two racing caller threads completes in one run
MaxAfCalls == 3      \* run_autofocus calls made by a caller in one run
MaxFrames == 1       \* frames counted since the last handled exception
MaxRate == 21        \* frame_rate ranges over 1..MaxRate
MaxBefore == 5       \* video_duration_before_motion ranges over 0..MaxBefore
MaxAfter == 3        \* video_duration_after_motion ranges over 0..MaxAfter
MaxLen == 3          \* length of the lists given to find_closest_exposure
MaxVal == 6          \* list members and queries range over 0..MaxVal

\* run_autofocus: while not success and i < 5
MaxAttempts == 5

----------------------------------------------------------------------------
(* Program constants *)

picamera_exists == TRUE

ExpList == <<250, 313, 400, 500, 625, 800, 1000, 1250, 1563, 2000, 2500, 3125,
             4000, 5000, 6250, 8000, 10000, 12500, 16666, 20000, 25000, 33333>>

Resolutions == {"1640x1232", "1920x1080"}
OnOff == {"on", "off"}
Modes == {"auto", "manual"}
\* argument values offered to the setters
Shutters == {ExpList[1], ExpList[2]}
Gains == {1, 2}
SharpVals == {0, 1}
Outputs == {"a.h264", "b.h264"}

----------------------------------------------------------------------------
(* The persisted record: json.dumps(sort_keys=True) and its reload *)

\* the keys of the settings dict in the order sort_keys=True writes them
SortedKeys == <<"LED", "af_enable", "analogue_gain", "data_path", "exposure_mode",
                "frame_rate", "img_height", "img_width", "resolution",
                "rotate_camera", "sharpness_mode", "sharpness_val",
                "shutter_speed", "timestamp", "video_duration_after_motion",
                "video_duration_before_motion">>

\* json.dumps(new_config, sort_keys=True, ...): the members in key order
dumps(cfg) ==
    LET keys == SelectSeq(SortedKeys, LAMBDA k : k \in DOMAIN cfg)
    IN  [i \in 1..Len(keys) |-> <<keys[i], cfg[keys[i]]>>]

\* json.load of a file's content: the dict of its members
loads(text) ==
    [k \in {text[i][1] : i \in DOMAIN text} |->
        LET i == CHOOSE j \in DOMAIN text : text[j][1] = k IN text[i][2]]

\* outcomes of open(config_path, 'w') + write:
\*   "ok"         written in full
\*   "open_fail"  open raises, the file is untouched
\*   "write_fail" open truncated the file, then dumps / write raises
WriteOutcomes == {"ok", "open_fail", "write_fail"}

\* update_config: the file content left behind
update_config(old, new_config, w) ==
    CASE w = "ok" -> dumps(new_config)
      [] w = "open_fail" -> old
      [] OTHER -> <<>>

\* failed writes are bounded in a run
WriteAllowed(w) == w = "ok" \/ write_fails < MaxWriteFails

----------------------------------------------------------------------------
(* Hardware camera sessions (Picamera2 objects) *)

\* a control the session was never given
Unset == 0 - 1

ClosedSession ==
    [state |-> "closed", started |-> FALSE, encoding |-> FALSE,
     pre_callback |-> FALSE, flip |-> FALSE, fdl |-> 0,
     Sharpness |-> Unset, ExposureTime |-> Unset, AnalogueGain |-> Unset]

NoSession == [ClosedSession EXCEPT !.state = "new"]

\* Picamera2() followed by configure(video_config) and start()
OpenSession(flip, fdl) ==
    [ClosedSession EXCEPT !.state = "open", !.started = TRUE,
                          !.flip = flip, !.fdl = fdl]

\* the most Picamera2 objects a run creates: the first, one for each injected
\* fault, one for the exception each rotation change can provoke in the loop
\* and one for the exception stop() provokes
NumSessions == MaxFaults + MaxRotations + 2

IsOpen(c) == c # 0 /\ sess[c].state = "open"

\* int(1000000 / frame_rate)
FrameDuration(cfg) == 1000000 \div cfg.frame_rate

----------------------------------------------------------------------------
(* The state after __init__ *)

MkConfig(res, led, ts, smode, sval, emode, shutter, gain, rot, rate, before, after) ==
    [resolution |-> res,
     img_width |-> IF res = "1640x1232" THEN 1640 ELSE 1920,
     img_height |-> IF res = "1640x1232" THEN 1232 ELSE 1080,
     LED |-> led, timestamp |-> ts,
     sharpness_mode |-> smode, sharpness_val |-> sval,
     exposure_mode |-> emode, shutter_speed |-> shutter, analogue_gain |-> gain,
     rotate_camera |-> rot, frame_rate |-> rate,
     video_duration_before_motion |-> before,
     video_duration_after_motion |-> after,
     af_enable |-> 0, data_path |-> "data"]

\* the session __init__ leaves open: initialise_picamera, then pre_callback
InitSession(cfg) ==
    [OpenSession(cfg.rotate_camera = 1, FrameDuration(cfg)) EXCEPT
        !.pre_callback = TRUE,
        !.ExposureTime = IF cfg.exposure_mode = "auto" THEN Unset ELSE cfg.shutter_speed,
        !.AnalogueGain = IF cfg.exposure_mode = "auto" THEN Unset ELSE cfg.analogue_gain,
        !.Sharpness = cfg.sharpness_val]

\* no set_camera_rotation call in progress, none begun
RotIdle == [pc |-> "idle", arg |-> FALSE, calls |-> 0]

\* no run_autofocus call in progress, none made by a caller
AfIdle == [pc |-> "idle", success |-> FALSE, i |-> 0, polls |-> 0,
          report |-> "none", calls |-> 0]

\* the launcher is not part of the run
MainIdle == [pc |-> "idle", fault |-> "none", at |-> "none", cameras |-> "0",
            e |-> "none", app |-> "none"]

\* a caller thread that is not inside its setter
CallerIdle == [pc |-> "idle", arg |-> "none", text |-> <<>>, ok |-> TRUE, calls |-> 0]

\* neither thread has called its setter; closer is the thread whose write
\* reached the file last and written the text it wrote, overlapped tells
\* whether two calls ever ran at once
RaceIdle == [led |-> CallerIdle, ts |-> CallerIdle, closer |-> "none",
             written |-> <<>>, overlapped |-> FALSE]

\* no set_exposure call since construction or the last auto_exposure
NoRequest == [set |-> FALSE, ExposureTime |-> 0, AnalogueGain |-> 0, reinits |-> 0]

NoCall == [op |-> "none", ok |-> TRUE, same |-> FALSE, wrote |-> FALSE,
           hw |-> 0, restart |-> FALSE]

\* __init__ with settings cfg up to line 115: the settings are as persisted by
\* the set_sharpness call that ends initialise_picamera
ConstructedSession(cfg) ==
    /\ config = cfg
    /\ file = dumps(cfg)
    /\ resolution = IF cfg.resolution = "1640x1232" THEN "1640x1232" ELSE "1920x1080"
    /\ LED = IF cfg.LED = "off" THEN "off" ELSE "on"
    /\ timestamp = IF cfg.timestamp = "off" THEN 0 ELSE 1
    /\ sharpness_mode = IF cfg.sharpness_mode = "auto" THEN "auto" ELSE "manual"
    /\ sharpness_val = cfg.sharpness_val
    /\ exposure_mode = IF cfg.exposure_mode = "auto" THEN "auto" ELSE "off"
    /\ rotated_camera = (cfg.rotate_camera = 1)
    /\ frame_duration = FrameDuration(cfg)
    /\ camera = 1
    /\ sess = [i \in 1..NumSessions |-> IF i = 1 THEN InitSession(cfg) ELSE NoSession]
    /\ gpio16 = (cfg.LED # "off")
    /\ image = "None"
    /\ stop_event = FALSE
    /\ stopPc = "idle"
    /\ stops = <<>>
    /\ fileoutput = "None"
    /\ recording = FALSE
    /\ streaming = FALSE
    /\ faults = 0
    /\ write_fails = 0
    /\ capture_faults = 0
    /\ reinits = 0
    /\ frames = 0
    /\ last = NoCall
    /\ rotCall = RotIdle
    /\ md_frame = "None"
    /\ exposure_request = NoRequest
    /\ race = RaceIdle

\* VideoBufferSize as it would be without the extra half second
VideoBufferSize_nomargin(cfg) ==
    cfg.frame_rate * (cfg.video_duration_before_motion + cfg.video_duration_after_motion)

\* int(frame_rate * (before + after + 0.5)): the factor is a multiple of one
\* half, so the product is exact and int() drops a fraction of one half
VideoBufferSize(cfg) ==
    (cfg.frame_rate * (2 * (cfg.video_duration_before_motion
                            + cfg.video_duration_after_motion) + 1)) \div 2

\* the state after __init__
\* sensor models camera_properties['Model'] can name; "imx708" in
\* self.camera_model holds of the first two
CameraModels == {"imx708", "imx708_wide", "imx219"}
Imx708Models == {"imx708", "imx708_wide"}

\* the controller __init__ leaves behind on a sensor of the given model
ConstructedController(cfg, camera_model) ==
    /\ ConstructedSession(cfg)
    /\ video_buffer_size = VideoBufferSize(cfg)
    /\ probe = 0
    /\ af_enabled = (cfg.af_enable = 1 /\ camera_model \in Imx708Models)
    /\ af = AfIdle

\* a controller constructed on its own, without the launcher
ConstructedOn(cfg, camera_model) ==
    /\ ConstructedController(cfg, camera_model)
    /\ main = MainIdle

Constructed(cfg) == ConstructedOn(cfg, "imx219")

\* settings a constructed controller can hold: in auto sharpness the value
\* written back is 1
SharpSettings == {<<"auto", 1>>} \cup {<<"manual", v>> : v \in SharpVals}

CfgConfigs ==
    {MkConfig(res, led, ts, sh[1], sh[2], em, sp, 1, rot, 20, 5, 3) :
        res \in Resolutions, led \in OnOff, ts \in OnOff, sh \in SharpSettings,
        em \in {"auto", "off"}, sp \in {ExpList[1]}, rot \in {0, 1}}

----------------------------------------------------------------------------
(* The setters, each executed as one call by a caller thread.  w is the     *)
(* outcome of the write of config.json the call makes, if it makes one.     *)
(* new_config aliases self.config, so the dict is changed before the write  *)
(* and stays changed when the write raises.                                 *)

Call(op, ok, same, wrote, hw, restart) ==
    [op |-> op, ok |-> ok, same |-> same, wrote |-> wrote, hw |-> hw,
     restart |-> restart]

\* Persist as it would be if the file were written from the dict as it stood
\* before the setter changed it
Persist_stale(new_config, w) ==
    /\ WriteAllowed(w)
    /\ config' = new_config
    /\ file' = update_config(file, config, w)
    /\ write_fails' = IF w = "ok" THEN write_fails ELSE write_fails + 1

\* Persist as it would be if a failed write put the old dict back
Persist_rollback(new_config, w) ==
    /\ WriteAllowed(w)
    /\ config' = IF w = "ok" THEN new_config ELSE config
    /\ file' = update_config(file, new_config, w)
    /\ write_fails' = IF w = "ok" THEN write_fails ELSE write_fails + 1

\* the write every setter ends with
Persist(new_config, w) ==
    /\ WriteAllowed(w)
    /\ config' = new_config
    /\ file' = update_config(file, new_config, w)
    /\ write_fails' = IF w = "ok" THEN write_fails ELSE write_fails + 1

NoPersist == UNCHANGED <<config, file, write_fails>>

\* set_resolution with the restart requested whether or not the write succeeded
set_resolution_restart_first(res, w) ==
    /\ IF resolution # res
       THEN /\ resolution' = res
            /\ Persist([config EXCEPT
                          !.resolution = IF res = "1640x1232" THEN "1640x1232" ELSE "1920x1080",
                          !.img_height = IF res = "1640x1232" THEN 1232 ELSE 1080,
                          !.img_width = IF res = "1640x1232" THEN 1640 ELSE 1920], w)
            /\ last' = Call("set_resolution", w = "ok", FALSE, TRUE, 0, TRUE)
       ELSE /\ w = "ok"
            /\ NoPersist
            /\ UNCHANGED resolution
            /\ last' = Call("set_resolution", TRUE, TRUE, FALSE, 0, FALSE)
    /\ UNCHANGED <<LED, timestamp, sharpness_mode, sharpness_val, exposure_mode,
                   rotated_camera, frame_duration, video_buffer_size, camera, sess,
                   gpio16, faults, probe, auxVars, exposure_request>>
    /\ UNCHANGED threadVars /\ UNCHANGED videoVars

set_resolution(res, w) ==
    /\ IF resolution # res
       THEN /\ resolution' = res
            /\ Persist([config EXCEPT
                          !.resolution = IF res = "1640x1232" THEN "1640x1232" ELSE "1920x1080",
                          !.img_height = IF res = "1640x1232" THEN 1232 ELSE 1080,
                          !.img_width = IF res = "1640x1232" THEN 1640 ELSE 1920], w)
            /\ last' = Call("set_resolution", w = "ok", FALSE, TRUE, 0, w = "ok")
       ELSE /\ w = "ok"
            /\ NoPersist
            /\ UNCHANGED resolution
            /\ last' = Call("set_resolution", TRUE, TRUE, FALSE, 0, FALSE)
    /\ UNCHANGED <<LED, timestamp, sharpness_mode, sharpness_val, exposure_mode,
                   rotated_camera, frame_duration, video_buffer_size, camera, sess,
                   gpio16, faults, probe, auxVars, exposure_request>>
    /\ UNCHANGED threadVars /\ UNCHANGED videoVars

\* set_LED without its comparison against self.LED
set_LED_unguarded(led, w) ==
    /\ LED' = led
    /\ gpio16' = (led # "off")
    /\ Persist([config EXCEPT !.LED = IF led = "off" THEN "off" ELSE "on"], w)
    /\ last' = Call("set_LED", w = "ok", LED = led, TRUE, 1, FALSE)
    /\ UNCHANGED <<resolution, timestamp, sharpness_mode, sharpness_val, exposure_mode,
                   rotated_camera, frame_duration, video_buffer_size, camera, sess,
                   faults, probe, auxVars, exposure_request>>
    /\ UNCHANGED threadVars /\ UNCHANGED videoVars

set_LED(led, w) ==
    /\ IF LED # led
       THEN /\ LED' = led
            /\ gpio16' = (led # "off")
            /\ Persist([config EXCEPT !.LED = IF led = "off" THEN "off" ELSE "on"], w)
            /\ last' = Call("set_LED", w = "ok", FALSE, TRUE, 1, FALSE)
       ELSE /\ w = "ok"
            /\ NoPersist
            /\ UNCHANGED <<LED, gpio16>>
            /\ last' = Call("set_LED", TRUE, TRUE, FALSE, 0, FALSE)
    /\ UNCHANGED <<resolution, timestamp, sharpness_mode, sharpness_val, exposure_mode,
                   rotated_camera, frame_duration, video_buffer_size, camera, sess,
                   faults, probe, auxVars, exposure_request>>
    /\ UNCHANGED threadVars /\ UNCHANGED videoVars

set_TimestampMode(ts, w) ==
    /\ timestamp' = IF ts = "off" THEN 0 ELSE 1
    /\ Persist([config EXCEPT !.timestamp = IF ts = "off" THEN "off" ELSE "on"], w)
    /\ last' = Call("set_TimestampMode", w = "ok",
                    timestamp = (IF ts = "off" THEN 0 ELSE 1), TRUE, 0, FALSE)
    /\ UNCHANGED <<resolution, LED, sharpness_mode, sharpness_val, exposure_mode,
                   rotated_camera, frame_duration, video_buffer_size, camera, sess,
                   gpio16, faults, probe, auxVars, exposure_request>>
    /\ UNCHANGED threadVars /\ UNCHANGED videoVars

\* the value set_sharpness hands to the hardware and to the settings dict
SharpnessApplied(val, mode) == IF mode = "auto" THEN 1 ELSE val

set_sharpness(val, mode, w) ==
    /\ IsOpen(camera)
    /\ sharpness_mode' = mode
    /\ sharpness_val' = IF mode = "auto" THEN sharpness_val ELSE val
    /\ sess' = [sess EXCEPT ![camera].Sharpness = SharpnessApplied(val, mode)]
    /\ Persist([config EXCEPT !.sharpness_val = SharpnessApplied(val, mode),
                              !.sharpness_mode = mode], w)
    /\ last' = Call("set_sharpness", w = "ok",
                    /\ sharpness_mode = mode
                    /\ sess[camera].Sharpness = SharpnessApplied(val, mode),
                    TRUE, 1, FALSE)
    /\ UNCHANGED <<resolution, LED, timestamp, exposure_mode, rotated_camera,
                   frame_duration, video_buffer_size, camera, gpio16, faults, probe, auxVars, exposure_request>>
    /\ UNCHANGED threadVars /\ UNCHANGED videoVars

set_exposure(ExposureTime, AnalogueGain, w) ==
    /\ picamera_exists
    /\ IsOpen(camera)
    /\ sess' = [sess EXCEPT ![camera].ExposureTime = ExposureTime,
                            ![camera].AnalogueGain = AnalogueGain]
    /\ exposure_mode' = "off"
    /\ exposure_request' = [set |-> TRUE, ExposureTime |-> ExposureTime,
                            AnalogueGain |-> AnalogueGain, reinits |-> reinits]
    /\ Persist([config EXCEPT !.shutter_speed = ExposureTime,
                              !.exposure_mode = "off"], w)
    /\ last' = Call("set_exposure", w = "ok",
                    /\ exposure_mode = "off"
                    /\ sess[camera].ExposureTime = ExposureTime
                    /\ sess[camera].AnalogueGain = AnalogueGain,
                    TRUE, 1, FALSE)
    /\ UNCHANGED <<resolution, LED, timestamp, sharpness_mode, sharpness_val,
                   rotated_camera, frame_duration, video_buffer_size, camera,
                   gpio16, faults, probe, auxVars>>
    /\ UNCHANGED threadVars /\ UNCHANGED videoVars

auto_exposure(w) ==
    /\ picamera_exists
    /\ IsOpen(camera)
    /\ exposure_mode' = "auto"
    /\ exposure_request' = NoRequest
    /\ sess' = [sess EXCEPT ![camera].ExposureTime = 0, ![camera].AnalogueGain = 0]
    /\ Persist([config EXCEPT !.exposure_mode = "auto"], w)
    /\ last' = Call("auto_exposure", w = "ok", exposure_mode = "auto", TRUE, 1, FALSE)
    /\ UNCHANGED <<resolution, LED, timestamp, sharpness_mode, sharpness_val,
                   rotated_camera, frame_duration, video_buffer_size, camera,
                   gpio16, faults, probe, auxVars>>
    /\ UNCHANGED threadVars /\ UNCHANGED videoVars

\* camera.stop(); configure(create_video_configuration(..., transform=...));
\* camera.start(): the configuration names no FrameDurationLimits
Reconfigured(s, rotation) == [s EXCEPT !.started = TRUE, !.flip = rotation, !.fdl = 0]

\* set_camera_rotation without its comparison against self.rotated_camera
set_camera_rotation_unguarded(rotation, w) ==
    /\ IsOpen(camera)
    /\ rotated_camera' = rotation
    /\ sess' = [sess EXCEPT ![camera] = Reconfigured(@, rotation)]
    /\ Persist([config EXCEPT !.rotate_camera = IF rotation THEN 1 ELSE 0], w)
    /\ last' = Call("set_camera_rotation", w = "ok", rotated_camera = rotation, TRUE, 3, FALSE)
    /\ UNCHANGED <<resolution, LED, timestamp, sharpness_mode, sharpness_val,
                   exposure_mode, frame_duration, video_buffer_size, camera,
                   gpio16, faults, probe, auxVars, exposure_request>>
    /\ UNCHANGED threadVars /\ UNCHANGED videoVars

set_camera_rotation(rotation, w) ==
    /\ IsOpen(camera)
    /\ IF rotated_camera # rotation
       THEN /\ rotated_camera' = rotation
            /\ sess' = [sess EXCEPT ![camera] = Reconfigured(@, rotation)]
            /\ Persist([config EXCEPT !.rotate_camera = IF rotation THEN 1 ELSE 0], w)
            /\ last' = Call("set_camera_rotation", w = "ok", FALSE, TRUE, 3, FALSE)
       ELSE /\ w = "ok"
            /\ NoPersist
            /\ UNCHANGED <<rotated_camera, sess>>
            /\ last' = Call("set_camera_rotation", TRUE, TRUE, FALSE, 0, FALSE)
    /\ UNCHANGED <<resolution, LED, timestamp, sharpness_mode, sharpness_val,
                   exposure_mode, frame_duration, video_buffer_size, camera,
                   gpio16, faults, probe, auxVars, exposure_request>>
    /\ UNCHANGED threadVars /\ UNCHANGED videoVars

----------------------------------------------------------------------------
(* SpecCfg: a constructed controller whose setters are called one at a time *)

InitCfg ==
    /\ \E cfg \in CfgConfigs : Constructed(cfg)
    /\ loopPc = "idle"

SetResolution == \E res \in Resolutions, w \in WriteOutcomes : set_resolution(res, w)
SetLED == \E led \in OnOff, w \in WriteOutcomes : set_LED(led, w)
SetTimestampMode == \E ts \in OnOff, w \in WriteOutcomes : set_TimestampMode(ts, w)
SetSharpness ==
    \E val \in SharpVals, mode \in Modes, w \in WriteOutcomes : set_sharpness(val, mode, w)
SetExposure ==
    \E e \in Shutters, g \in Gains, w \in WriteOutcomes : set_exposure(e, g, w)
AutoExposure == \E w \in WriteOutcomes : auto_exposure(w)
SetCameraRotation ==
    \E rotation \in BOOLEAN, w \in WriteOutcomes : set_camera_rotation(rotation, w)

NextCfg ==
    \/ SetResolution
    \/ SetLED
    \/ SetTimestampMode
    \/ SetSharpness
    \/ SetExposure
    \/ AutoExposure
    \/ SetCameraRotation

SpecCfg == InitCfg /\ [][NextCfg]_vars

----------------------------------------------------------------------------
(* The capture loop thread: run, and the initialise_picamera call of its    *)
(* exception handler.  An exception raised inside the handler is caught by  *)
(* nothing (the outer try catches KeyboardInterrupt only): the thread dies. *)

Min(a, b) == IF a < b THEN a ELSE b

\* capture_array / capture_metadata need a started session
CanCapture(c) == IsOpen(c) /\ sess[c].started

\* a loop test that does not look at the stop event
run_head_nostop ==
    /\ loopPc = "head"
    /\ loopPc' = "capture"
    /\ UNCHANGED <<config, file, write_fails, camera, sess, gpio16, faults, last, probe, auxVars, exposure_request,
                   image, stop_event, stopPc, stops, capture_faults, reinits, frames>>
    /\ UNCHANGED settingVars /\ UNCHANGED videoVars

\* while not self.is_stopped():
run_head ==
    /\ loopPc = "head"
    /\ loopPc' = IF stop_event THEN "done" ELSE "capture"
    /\ UNCHANGED <<config, file, write_fails, camera, sess, gpio16, faults, last, probe, auxVars, exposure_request,
                   image, stop_event, stopPc, stops, capture_faults, reinits, frames>>
    /\ UNCHANGED settingVars /\ UNCHANGED videoVars

\* self.image = cvtColor(self.camera.capture_array("lores")); fault is a
\* hardware fault raised by a session that could otherwise deliver
run_capture(fault) ==
    /\ loopPc = "capture"
    /\ fault => (faults < MaxFaults /\ CanCapture(camera))
    /\ IF fault \/ ~CanCapture(camera)
       THEN /\ loopPc' = "except"
            /\ capture_faults' = capture_faults + 1
            /\ faults' = IF fault THEN faults + 1 ELSE faults
            /\ UNCHANGED <<image, frames>>
       ELSE /\ loopPc' = "stamp"
            /\ image' = "raw"
            /\ frames' = Min(frames + 1, MaxFrames)
            /\ UNCHANGED <<capture_faults, faults>>
    /\ UNCHANGED <<config, file, write_fails, camera, sess, gpio16, last, probe, auxVars, exposure_request,
                   stop_event, stopPc, stops, reinits>>
    /\ UNCHANGED settingVars /\ UNCHANGED videoVars

\* if self.timestamp == 1: cv2.putText(self.image, ...); time.sleep(0.01)
run_stamp ==
    /\ loopPc = "stamp"
    /\ image' = IF timestamp = 1 THEN "stamped" ELSE image
    /\ loopPc' = "head"
    /\ UNCHANGED <<config, file, write_fails, camera, sess, gpio16, faults, last, probe, auxVars, exposure_request,
                   stop_event, stopPc, stops, capture_faults, reinits, frames>>
    /\ UNCHANGED settingVars /\ UNCHANGED videoVars

\* a handler that logs and goes on without reinitialising
run_except_skip ==
    /\ loopPc = "except"
    /\ loopPc' = "head"
    /\ frames' = 0
    /\ UNCHANGED <<config, file, write_fails, camera, sess, gpio16, faults, last, probe, auxVars, exposure_request,
                   image, stop_event, stopPc, stops, capture_faults, reinits>>
    /\ UNCHANGED settingVars /\ UNCHANGED videoVars

\* except Exception as e: log, then call self.initialise_picamera()
run_except ==
    /\ loopPc = "except"
    /\ reinits' = reinits + 1
    /\ frames' = 0
    /\ loopPc' = "init_close"
    /\ UNCHANGED <<config, file, write_fails, camera, sess, gpio16, faults, last, probe, auxVars, exposure_request,
                   image, stop_event, stopPc, stops, capture_faults>>
    /\ UNCHANGED settingVars /\ UNCHANGED videoVars

\* initialise_picamera without the close of the running instance
init_close_skip ==
    /\ loopPc = "init_close"
    /\ loopPc' = "init_open"
    /\ UNCHANGED <<config, file, write_fails, camera, sess, gpio16, faults, last, probe,
                   auxVars, exposure_request,
                   image, stop_event, stopPc, stops, capture_faults, reinits, frames>>
    /\ UNCHANGED settingVars /\ UNCHANGED videoVars

\* if self.camera is not None: self.camera.close()
init_close ==
    /\ loopPc = "init_close"
    /\ sess' = IF camera # 0 THEN [sess EXCEPT ![camera] = ClosedSession] ELSE sess
    /\ loopPc' = "init_open"
    /\ UNCHANGED <<config, file, write_fails, camera, gpio16, faults, last, probe, auxVars, exposure_request,
                   image, stop_event, stopPc, stops, capture_faults, reinits, frames>>
    /\ UNCHANGED settingVars /\ UNCHANGED videoVars

\* self.camera = Picamera2() ... self.camera.configure(video_config);
\* self.camera.start(); fault is the device failing to open or configure
init_open(fault) ==
    /\ loopPc = "init_open"
    /\ fault => faults < MaxFaults
    /\ \E id \in DOMAIN sess :
         /\ sess[id].state = "new"
         /\ \A j \in DOMAIN sess : sess[j].state = "new" => id <= j
         /\ IF fault
            THEN /\ loopPc' = "crashed"
                 /\ faults' = faults + 1
                 /\ UNCHANGED <<camera, sess, gpio16, rotated_camera, frame_duration>>
            ELSE /\ loopPc' = "init_exposure"
                 /\ camera' = id
                 /\ gpio16' = (LED # "off")
                 /\ frame_duration' = FrameDuration(config)
                 /\ rotated_camera' = (config.rotate_camera = 1)
                 /\ sess' = [sess EXCEPT ![id] =
                               OpenSession(config.rotate_camera = 1, FrameDuration(config))]
                 /\ UNCHANGED faults
    /\ UNCHANGED <<config, file, write_fails, last, probe, auxVars, exposure_request,
                   image, stop_event, stopPc, stops, capture_faults, reinits, frames>>
    /\ UNCHANGED <<resolution, LED, timestamp, sharpness_mode, sharpness_val,
                   exposure_mode, video_buffer_size>>
    /\ UNCHANGED videoVars

\* lines 275-291: the exposure settings of the dict are applied with
\* set_exposure (which writes config.json, outcome w), then a frame is
\* pulled from the new session (fault: the hardware raises)
init_exposure(w, fault) ==
    /\ loopPc = "init_exposure"
    /\ fault => (faults < MaxFaults /\ w = "ok" /\ CanCapture(camera))
    /\ IF config.exposure_mode = "auto"
       THEN /\ w = "ok"
            /\ exposure_mode' = "auto"
            /\ loopPc' = IF CanCapture(camera) /\ ~fault THEN "init_sharpness" ELSE "crashed"
            /\ UNCHANGED <<sess, config, file, write_fails>>
       ELSE IF camera = 0
       THEN /\ w = "ok"
            /\ exposure_mode' = "off"
            /\ loopPc' = "crashed"
            /\ UNCHANGED <<sess, config, file, write_fails>>
       ELSE /\ exposure_mode' = "off"
            /\ sess' = IF IsOpen(camera)
                       THEN [sess EXCEPT ![camera].ExposureTime = config.shutter_speed,
                                         ![camera].AnalogueGain = config.analogue_gain]
                       ELSE sess
            /\ Persist([config EXCEPT !.shutter_speed = config.shutter_speed,
                                      !.exposure_mode = "off"], w)
            /\ loopPc' = IF w = "ok" /\ CanCapture(camera) /\ ~fault
                         THEN "init_sharpness" ELSE "crashed"
    /\ faults' = IF fault THEN faults + 1 ELSE faults
    /\ UNCHANGED <<camera, gpio16, last, probe, auxVars, exposure_request,
                   image, stop_event, stopPc, stops, capture_faults, reinits, frames>>
    /\ UNCHANGED <<resolution, LED, timestamp, sharpness_mode, sharpness_val,
                   rotated_camera, frame_duration, video_buffer_size>>
    /\ UNCHANGED videoVars

\* lines 293-304: af_enable is 0; self.set_sharpness(self.sharpness_val,
\* self.sharpness_mode), which writes config.json (outcome w); then the
\* handler's time.sleep(0.02)
init_sharpness(w) ==
    /\ loopPc = "init_sharpness"
    /\ IF camera = 0
       THEN /\ w = "ok"
            /\ loopPc' = "crashed"
            /\ UNCHANGED <<sess, config, file, write_fails>>
       ELSE /\ sess' = IF IsOpen(camera)
                       THEN [sess EXCEPT ![camera].Sharpness =
                                SharpnessApplied(sharpness_val, sharpness_mode)]
                       ELSE sess
            /\ Persist([config EXCEPT
                          !.sharpness_val = SharpnessApplied(sharpness_val, sharpness_mode),
                          !.sharpness_mode = sharpness_mode], w)
            /\ loopPc' = IF w = "ok" THEN "head" ELSE "crashed"
    /\ UNCHANGED <<camera, gpio16, faults, last, probe, auxVars, exposure_request,
                   image, stop_event, stopPc, stops, capture_faults, reinits, frames>>
    /\ UNCHANGED settingVars /\ UNCHANGED videoVars

----------------------------------------------------------------------------
(* stop(), executed by a caller thread while the loop thread runs *)

\* self._stop_event.set()
stop_set ==
    /\ stopPc = "idle"
    /\ Len(stops) < MaxStops
    /\ stop_event' = TRUE
    /\ streaming' = FALSE
    /\ stopPc' = "stop_encoder"
    /\ UNCHANGED <<config, file, write_fails, camera, sess, gpio16, faults, last, probe, auxVars, exposure_request,
                   image, loopPc, stops, capture_faults, reinits, frames,
                   fileoutput, recording>>
    /\ UNCHANGED settingVars

\* self.camera.stop_encoder(); self.camera.stop(): AttributeError when
\* self.camera is None
stop_encoder ==
    /\ stopPc = "stop_encoder"
    /\ IF camera = 0
       THEN /\ stops' = Append(stops, "raised")
            /\ stopPc' = "idle"
            /\ UNCHANGED sess
       ELSE /\ sess' = [sess EXCEPT ![camera].encoding = FALSE, ![camera].started = FALSE]
            /\ stopPc' = "stop_close"
            /\ UNCHANGED stops
    /\ UNCHANGED <<config, file, write_fails, camera, gpio16, faults, last, probe, auxVars, exposure_request,
                   image, stop_event, loopPc, capture_faults, reinits, frames>>
    /\ UNCHANGED settingVars /\ UNCHANGED videoVars

\* self.camera.close()
stop_close ==
    /\ stopPc = "stop_close"
    /\ sess' = [sess EXCEPT ![camera] = ClosedSession]
    /\ stopPc' = "stop_none"
    /\ UNCHANGED <<config, file, write_fails, camera, gpio16, faults, last, probe, auxVars, exposure_request,
                   image, stop_event, loopPc, stops, capture_faults, reinits, frames>>
    /\ UNCHANGED settingVars /\ UNCHANGED videoVars

\* self.camera = None; the call returns
stop_none ==
    /\ stopPc = "stop_none"
    /\ camera' = 0
    /\ stops' = Append(stops, "ok")
    /\ stopPc' = "idle"
    /\ UNCHANGED <<config, file, write_fails, sess, gpio16, faults, last, probe, auxVars, exposure_request,
                   image, stop_event, loopPc, capture_faults, reinits, frames>>
    /\ UNCHANGED settingVars /\ UNCHANGED videoVars

----------------------------------------------------------------------------
(* The circular video buffer controls, each one call of a caller thread *)

\* self.camera.start_encoder(self.encoder, self.encoder.output, ...)
start_video_stream ==
    /\ picamera_exists
    /\ IF IsOpen(camera)
       THEN /\ sess' = [sess EXCEPT ![camera].encoding = TRUE]
            /\ streaming' = TRUE
            /\ last' = Call("start_video_stream", TRUE, FALSE, FALSE, 1, FALSE)
       ELSE /\ UNCHANGED <<sess, streaming>>
            /\ last' = Call("start_video_stream", FALSE, FALSE, FALSE, 0, FALSE)
    /\ UNCHANGED <<config, file, write_fails, camera, gpio16, faults, probe, auxVars, exposure_request,
                   fileoutput, recording>>
    /\ UNCHANGED settingVars /\ UNCHANGED threadVars

\* self.camera.stop_encoder()
stop_video_stream ==
    /\ picamera_exists
    /\ IF camera # 0
       THEN /\ sess' = [sess EXCEPT ![camera].encoding = FALSE]
            /\ streaming' = FALSE
            /\ last' = Call("stop_video_stream", TRUE, FALSE, FALSE, 1, FALSE)
       ELSE /\ UNCHANGED <<sess, streaming>>
            /\ last' = Call("stop_video_stream", FALSE, FALSE, FALSE, 0, FALSE)
    /\ UNCHANGED <<config, file, write_fails, camera, gpio16, faults, probe, auxVars, exposure_request,
                   fileoutput, recording>>
    /\ UNCHANGED settingVars /\ UNCHANGED threadVars

\* start_saving_video as it would be if it refused a second arming
start_saving_video_checked(output_video) ==
    /\ picamera_exists
    /\ IF recording
       THEN /\ UNCHANGED <<fileoutput, recording>>
            /\ last' = Call("start_saving_video", FALSE, TRUE, FALSE, 0, FALSE)
       ELSE /\ fileoutput' = output_video
            /\ recording' = TRUE
            /\ last' = Call("start_saving_video", TRUE, FALSE, FALSE, 0, FALSE)
    /\ UNCHANGED <<config, file, write_fails, camera, sess, gpio16, faults, probe, auxVars, exposure_request,
                   streaming>>
    /\ UNCHANGED settingVars /\ UNCHANGED threadVars

\* self.encoder.output.fileoutput = output_video; self.encoder.output.start()
start_saving_video(output_video) ==
    /\ picamera_exists
    /\ fileoutput' = output_video
    /\ recording' = TRUE
    /\ last' = Call("start_saving_video", TRUE, recording, FALSE, 0, FALSE)
    /\ UNCHANGED <<config, file, write_fails, camera, sess, gpio16, faults, probe, auxVars, exposure_request,
                   streaming>>
    /\ UNCHANGED settingVars /\ UNCHANGED threadVars

\* self.encoder.output.stop(); self.encoder.output.fileoutput = None
stop_saving_video ==
    /\ picamera_exists
    /\ recording' = FALSE
    /\ fileoutput' = "None"
    /\ last' = Call("stop_saving_video", TRUE, FALSE, FALSE, 0, FALSE)
    /\ UNCHANGED <<config, file, write_fails, camera, sess, gpio16, faults, probe, auxVars, exposure_request,
                   streaming>>
    /\ UNCHANGED settingVars /\ UNCHANGED threadVars

----------------------------------------------------------------------------
(* Spec: a constructed controller whose capture loop thread has been        *)
(* started, with stop() and the video controls called from caller threads   *)

LoopConfigs ==
    {MkConfig("1640x1232", "on", ts, "auto", 1, em, ExpList[1], 1, 0, 20, 5, 3) :
        ts \in OnOff, em \in {"auto", "off"}}

Init ==
    /\ \E cfg \in LoopConfigs : Constructed(cfg)
    /\ loopPc = "head"

RunCapture == \E fault \in BOOLEAN : run_capture(fault)
InitOpen == \E fault \in BOOLEAN : init_open(fault)
InitExposure == \E w \in WriteOutcomes, fault \in BOOLEAN : init_exposure(w, fault)
InitSharpness == \E w \in WriteOutcomes : init_sharpness(w)
StartSavingVideo == \E o \in Outputs : start_saving_video(o)

\* the steps of the capture loop thread
Run ==
    \/ run_head
    \/ RunCapture
    \/ run_stamp
    \/ run_except
    \/ init_close
    \/ InitOpen
    \/ InitExposure
    \/ InitSharpness

\* the steps of a stop() call
Stop ==
    \/ stop_set
    \/ stop_encoder
    \/ stop_close
    \/ stop_none

Next ==
    \/ run_head
    \/ RunCapture
    \/ run_stamp
    \/ run_except
    \/ init_close
    \/ InitOpen
    \/ InitExposure
    \/ InitSharpness
    \/ stop_set
    \/ stop_encoder
    \/ stop_close
    \/ stop_none
    \/ start_video_stream
    \/ stop_video_stream
    \/ StartSavingVideo
    \/ stop_saving_video

Spec == Init /\ [][Next]_vars

\* the thread scheduler runs the loop thread and a stop() call in progress
SpecFair == Spec /\ WF_vars(Run) /\ WF_vars(Stop)

\* the loop thread and stop() calls alone, under the same scheduler
NextStop ==
    \/ Run
    \/ Stop

SpecStop == Init /\ [][NextStop]_vars /\ WF_vars(Run) /\ WF_vars(Stop)

----------------------------------------------------------------------------
(* set_camera_rotation executed step by step by a caller thread while the   *)
(* loop thread runs.  It takes no lock; every step reads self.camera anew.  *)

\* the call ends with an exception before anything is written
RotRaised ==
    /\ rotCall' = [rotCall EXCEPT !.pc = "idle"]
    /\ last' = Call("set_camera_rotation", FALSE, FALSE, FALSE, 0, FALSE)

\* if self.rotated_camera != rotation: self.rotated_camera = rotation
rot_begin(rotation) ==
    /\ rotCall.pc = "idle"
    /\ IF rotated_camera # rotation
       THEN /\ rotCall.calls < MaxRotations
            /\ rotated_camera' = rotation
            /\ rotCall' = [pc |-> "rot_stop", arg |-> rotation,
                           calls |-> rotCall.calls + 1]
            /\ UNCHANGED last
       ELSE /\ last' = Call("set_camera_rotation", TRUE, TRUE, FALSE, 0, FALSE)
            /\ UNCHANGED <<rotated_camera, rotCall>>
    /\ UNCHANGED <<config, file, write_fails, camera, sess, gpio16, faults, probe,
                   md_frame, af_enabled, af, main, exposure_request, race,
                   resolution, LED, timestamp, sharpness_mode, sharpness_val,
                   exposure_mode, frame_duration, video_buffer_size>>
    /\ UNCHANGED threadVars /\ UNCHANGED videoVars

\* self.camera.rotation = 180 (or 0); self.camera.stop()
rot_stop ==
    /\ rotCall.pc = "rot_stop"
    /\ picamera_exists
    /\ IF camera = 0
       THEN /\ RotRaised
            /\ UNCHANGED sess
       ELSE /\ sess' = [sess EXCEPT ![camera].started = FALSE]
            /\ rotCall' = [rotCall EXCEPT !.pc = "rot_configure"]
            /\ UNCHANGED last
    /\ UNCHANGED <<config, file, write_fails, camera, gpio16, faults, probe,
                   md_frame, af_enabled, af, main, exposure_request, race>>
    /\ UNCHANGED settingVars /\ UNCHANGED threadVars /\ UNCHANGED videoVars

\* video_config = self.camera.create_video_configuration(..., transform=
\* Transform(hflip=self.rotated_camera, vflip=self.rotated_camera));
\* self.camera.configure(video_config): refused by a session that is closed
\* or running
rot_configure ==
    /\ rotCall.pc = "rot_configure"
    /\ IF IsOpen(camera) /\ ~sess[camera].started
       THEN /\ sess' = [sess EXCEPT ![camera].flip = rotated_camera, ![camera].fdl = 0]
            /\ rotCall' = [rotCall EXCEPT !.pc = "rot_start"]
            /\ UNCHANGED last
       ELSE /\ RotRaised
            /\ UNCHANGED sess
    /\ UNCHANGED <<config, file, write_fails, camera, gpio16, faults, probe,
                   md_frame, af_enabled, af, main, exposure_request, race>>
    /\ UNCHANGED settingVars /\ UNCHANGED threadVars /\ UNCHANGED videoVars

\* self.camera.start()
rot_start ==
    /\ rotCall.pc = "rot_start"
    /\ IF IsOpen(camera)
       THEN /\ sess' = [sess EXCEPT ![camera].started = TRUE]
            /\ rotCall' = [rotCall EXCEPT !.pc = "rot_persist"]
            /\ UNCHANGED last
       ELSE /\ RotRaised
            /\ UNCHANGED sess
    /\ UNCHANGED <<config, file, write_fails, camera, gpio16, faults, probe,
                   md_frame, af_enabled, af, main, exposure_request, race>>
    /\ UNCHANGED settingVars /\ UNCHANGED threadVars /\ UNCHANGED videoVars

\* new_config["rotate_camera"] = 1 (or 0, by the branch taken);
\* self.config = self.update_config(new_config, ...)
rot_persist(w) ==
    /\ rotCall.pc = "rot_persist"
    /\ Persist([config EXCEPT !.rotate_camera = IF rotCall.arg THEN 1 ELSE 0], w)
    /\ rotCall' = [rotCall EXCEPT !.pc = "idle"]
    /\ last' = Call("set_camera_rotation", w = "ok", FALSE, TRUE, 3, FALSE)
    /\ UNCHANGED <<camera, sess, gpio16, faults, probe,
                   md_frame, af_enabled, af, main, exposure_request, race>>
    /\ UNCHANGED settingVars /\ UNCHANGED threadVars /\ UNCHANGED videoVars

----------------------------------------------------------------------------
(* SpecRot: the loop thread, stop() and rotation changes interleaved *)

\* one constructed controller with its loop started
RotConfig == MkConfig("1640x1232", "on", "off", "auto", 1, "auto", ExpList[1], 1, 0, 20, 5, 3)

InitRot ==
    /\ Constructed(RotConfig)
    /\ loopPc = "head"

RotBegin == \E rotation \in BOOLEAN : rot_begin(rotation)
RotPersist == \E w \in WriteOutcomes : rot_persist(w)

NextRot ==
    \/ run_head
    \/ RunCapture
    \/ run_stamp
    \/ run_except
    \/ init_close
    \/ InitOpen
    \/ InitExposure
    \/ InitSharpness
    \/ stop_set
    \/ stop_encoder
    \/ stop_close
    \/ stop_none
    \/ RotBegin
    \/ rot_stop
    \/ rot_configure
    \/ rot_start
    \/ RotPersist

SpecRot == InitRot /\ [][NextRot]_vars

----------------------------------------------------------------------------
(* SpecRead: the loop thread with a reader thread calling get_md_image *)

\* if self.image is not None: return self.image.copy()
get_md_image ==
    /\ md_frame' = image
    /\ UNCHANGED <<config, file, write_fails, camera, sess, gpio16, faults, last, probe,
                   rotCall, af_enabled, af, main, exposure_request, race>>
    /\ UNCHANGED settingVars /\ UNCHANGED threadVars /\ UNCHANGED videoVars

NextRead ==
    \/ run_head
    \/ RunCapture
    \/ run_stamp
    \/ run_except
    \/ init_close
    \/ InitOpen
    \/ InitExposure
    \/ InitSharpness
    \/ get_md_image

SpecRead == Init /\ [][NextRead]_vars

----------------------------------------------------------------------------
(* SpecAf: run_autofocus called by a caller thread on a constructed         *)
(* controller.  af.polls counts the calls that ask the hardware whether the *)
(* focus cycle is complete.                                                 *)

\* if self.af_enabled == True: ...; otherwise the call returns at once
af_begin ==
    /\ af.pc = "idle"
    /\ af.calls < MaxAfCalls
    /\ af' = IF af_enabled
             THEN [af EXCEPT !.pc = "cycle", !.success = FALSE, !.i = 0,
                             !.polls = 0, !.report = "none"]
             ELSE [af EXCEPT !.report = "none", !.polls = 0, !.i = 0,
                             !.success = FALSE, !.calls = af.calls + 1]
    /\ UNCHANGED <<config, file, write_fails, camera, sess, gpio16, faults, last, probe,
                   rotCall, md_frame, af_enabled, main, exposure_request, race>>
    /\ UNCHANGED settingVars /\ UNCHANGED threadVars /\ UNCHANGED videoVars

\* success = self.camera.autofocus_cycle(); i = 0
af_cycle(result) ==
    /\ af.pc = "cycle"
    /\ af' = [af EXCEPT !.pc = "test", !.success = result, !.i = 0, !.polls = 1]
    /\ UNCHANGED <<config, file, write_fails, camera, sess, gpio16, faults, last, probe,
                   rotCall, md_frame, af_enabled, main, exposure_request, race>>
    /\ UNCHANGED settingVars /\ UNCHANGED threadVars /\ UNCHANGED videoVars

\* while not success and i < 5: i += 1; time.sleep(1)
af_wait ==
    /\ af.pc = "test"
    /\ ~af.success /\ af.i < MaxAttempts
    /\ af' = [af EXCEPT !.i = af.i + 1]
    /\ UNCHANGED <<config, file, write_fails, camera, sess, gpio16, faults, last, probe,
                   rotCall, md_frame, af_enabled, main, exposure_request, race>>
    /\ UNCHANGED settingVars /\ UNCHANGED threadVars /\ UNCHANGED videoVars

\* if success: log 'completed successfully' else: log 'timed out'
af_report ==
    /\ af.pc = "test"
    /\ ~(~af.success /\ af.i < MaxAttempts)
    /\ af' = [af EXCEPT !.pc = "idle",
                        !.report = IF af.success THEN "success" ELSE "timeout",
                        !.calls = af.calls + 1]
    /\ UNCHANGED <<config, file, write_fails, camera, sess, gpio16, faults, last, probe,
                   rotCall, md_frame, af_enabled, main, exposure_request, race>>
    /\ UNCHANGED settingVars /\ UNCHANGED threadVars /\ UNCHANGED videoVars

AfConfigs == {[cfg EXCEPT !.af_enable = a] : cfg \in LoopConfigs, a \in {0, 1}}

InitAf ==
    /\ \E cfg \in AfConfigs, camera_model \in CameraModels : ConstructedOn(cfg, camera_model)
    /\ loopPc = "idle"

AfCycle == \E result \in BOOLEAN : af_cycle(result)

NextAf ==
    \/ af_begin
    \/ AfCycle
    \/ af_wait
    \/ af_report

SpecAf == InitAf /\ [][NextAf]_vars

----------------------------------------------------------------------------
(* SpecMain: the launcher (__main__), with the loop thread it starts.       *)
(* main.fault is the message of the exception startup raised, main.at the   *)
(* call that raised it, main.e the exception the handler holds, main.app    *)
(* the application object, main.cameras the output of grep -c "0 : imx".    *)

NotEnabled == "Camera is not enabled"
StartupFaults == {NotEnabled, "other"}
GrepCounts == {"0", "1"}

\* except Exception as e: the handler is entered with the exception raised
main_except(fault, at) ==
    [main EXCEPT !.pc = "handler", !.fault = fault, !.at = at, !.e = fault]

\* app = create_app()
main_create_app(fault) ==
    /\ main.pc = "create_app"
    /\ main' = IF fault = "none"
               THEN [main EXCEPT !.pc = "controller_start", !.app = "app"]
               ELSE main_except(fault, "create_app")
    /\ UNCHANGED <<config, file, write_fails, camera, sess, gpio16, faults, last, probe,
                   rotCall, md_frame, af_enabled, af, exposure_request, race>>
    /\ UNCHANGED settingVars /\ UNCHANGED threadVars /\ UNCHANGED videoVars

\* app.camera_controller.start(): the loop thread begins to run
main_controller_start(fault) ==
    /\ main.pc = "controller_start"
    /\ IF fault = "none"
       THEN /\ main' = [main EXCEPT !.pc = "detector_start"]
            /\ loopPc' = "head"
       ELSE /\ main' = main_except(fault, "controller_start")
            /\ UNCHANGED loopPc
    /\ UNCHANGED <<config, file, write_fails, camera, sess, gpio16, faults, last, probe,
                   rotCall, md_frame, af_enabled, af, exposure_request, race,
                   image, stop_event, stopPc, stops, capture_faults, reinits, frames>>
    /\ UNCHANGED settingVars /\ UNCHANGED videoVars

\* app.change_detector.start()
main_detector_start(fault) ==
    /\ main.pc = "detector_start"
    /\ main' = IF fault = "none"
               THEN [main EXCEPT !.pc = "run"]
               ELSE main_except(fault, "detector_start")
    /\ UNCHANGED <<config, file, write_fails, camera, sess, gpio16, faults, last, probe,
                   rotCall, md_frame, af_enabled, af, exposure_request, race>>
    /\ UNCHANGED settingVars /\ UNCHANGED threadVars /\ UNCHANGED videoVars

\* if isinstance(e) and ...: isinstance takes two arguments, so the test
\* raises TypeError inside the handler and the exception leaves the script:
\* is_camera_enabled() and create_error_app(e) are not reached
main_handler ==
    /\ main.pc = "handler"
    /\ main' = [main EXCEPT !.pc = "crashed", !.e = "TypeError"]
    /\ UNCHANGED <<config, file, write_fails, camera, sess, gpio16, faults, last, probe,
                   rotCall, md_frame, af_enabled, af, exposure_request, race>>
    /\ UNCHANGED settingVars /\ UNCHANGED threadVars /\ UNCHANGED videoVars

\* app.run(...)
main_run ==
    /\ main.pc = "run"
    /\ main' = [main EXCEPT !.pc = "serving"]
    /\ UNCHANGED <<config, file, write_fails, camera, sess, gpio16, faults, last, probe,
                   rotCall, md_frame, af_enabled, af, exposure_request, race>>
    /\ UNCHANGED settingVars /\ UNCHANGED threadVars /\ UNCHANGED videoVars

\* the launcher about to call create_app(); the controller's fields are those
\* create_app() gives it
InitMain ==
    /\ \E cfg \in LoopConfigs : ConstructedController(cfg, "imx219")
    /\ \E c \in GrepCounts : main = [MainIdle EXCEPT !.pc = "create_app", !.cameras = c]
    /\ loopPc = "idle"

MainCreateApp == \E fault \in StartupFaults \cup {"none"} : main_create_app(fault)
MainControllerStart == \E fault \in StartupFaults \cup {"none"} : main_controller_start(fault)
MainDetectorStart == \E fault \in StartupFaults \cup {"none"} : main_detector_start(fault)

NextMain ==
    \/ MainCreateApp
    \/ MainControllerStart
    \/ MainDetectorStart
    \/ main_handler
    \/ main_run
    \/ run_head
    \/ RunCapture
    \/ run_stamp
    \/ run_except
    \/ init_close
    \/ InitOpen
    \/ InitExposure
    \/ InitSharpness

SpecMain == InitMain /\ [][NextMain]_vars

----------------------------------------------------------------------------
(* SpecExp: the loop thread with a caller thread setting the exposure *)

NextExp ==
    \/ run_head
    \/ RunCapture
    \/ run_stamp
    \/ run_except
    \/ init_close
    \/ InitOpen
    \/ InitExposure
    \/ InitSharpness
    \/ SetExposure
    \/ AutoExposure

SpecExp == Init /\ [][NextExp]_vars

----------------------------------------------------------------------------
(* SpecRace: set_LED on one caller thread and set_TimestampMode on another,  *)
(* executed statement by statement.  Neither takes a lock.  Both work on the *)
(* one dict self.config refers to (new_config = self.config), and each       *)
(* update_config opens config.json for itself: 'w' truncates the file, the   *)
(* text is written from offset 0 when the with block closes the file.        *)

Callers == {"led", "ts"}
Other(t) == IF t = "led" THEN "ts" ELSE "led"
InCall(t) == race[t].pc # "idle"

\* bytes of a text, up to the constant the fields contribute that no call of
\* these runs changes: "off" is one byte longer than "on"; an entry
\* "#trailing" stands for bytes of an older, longer text left behind the text
RECURSIVE TextBytes(_)
TextBytes(text) ==
    IF text = <<>> THEN 0
    ELSE (IF text[1][1] \in {"LED", "timestamp"}
          THEN (IF text[1][2] = "off" THEN 3 ELSE 2)
          ELSE IF text[1][1] = "#trailing" THEN text[1][2] ELSE 0)
         + TextBytes(Tail(text))

\* json_file.write(contents) flushed at offset 0 into a file that holds old
WrittenOver(old, contents) ==
    IF TextBytes(old) > TextBytes(contents)
    THEN contents \o <<<<"#trailing", TextBytes(old) - TextBytes(contents)>>>>
    ELSE contents

\* the caller enters its setter
Entered(t, arg) ==
    [race EXCEPT ![t].pc = "mutate", ![t].arg = arg, ![t].text = <<>>,
                 ![t].ok = TRUE,
                 !.overlapped = race.overlapped \/ InCall(Other(t))]

\* the call returns, with or without an exception
Returned(t, ok) ==
    [race EXCEPT ![t].pc = "idle", ![t].ok = ok, ![t].text = <<>>,
                 ![t].calls = race[t].calls + 1]

\* with open(config_path, 'w') as json_file:
caller_open(t, w) ==
    /\ race[t].pc = "open"
    /\ w \in {"ok", "open_fail"}
    /\ WriteAllowed(w)
    /\ IF w = "ok"
       THEN /\ file' = <<>>
            /\ race' = [race EXCEPT ![t].pc = "dumps"]
            /\ UNCHANGED write_fails
       ELSE /\ race' = Returned(t, FALSE)
            /\ write_fails' = write_fails + 1
            /\ UNCHANGED file
    /\ UNCHANGED <<config, camera, sess, gpio16, faults, last, probe,
                   rotCall, md_frame, af_enabled, af, main, exposure_request>>
    /\ UNCHANGED settingVars /\ UNCHANGED threadVars /\ UNCHANGED videoVars

\* contents = json.dumps(new_config, sort_keys=True, ...)
caller_dumps(t) ==
    /\ race[t].pc = "dumps"
    /\ race' = [race EXCEPT ![t].pc = "close", ![t].text = dumps(config)]
    /\ UNCHANGED <<config, file, write_fails, camera, sess, gpio16, faults, last, probe,
                   rotCall, md_frame, af_enabled, af, main, exposure_request>>
    /\ UNCHANGED settingVars /\ UNCHANGED threadVars /\ UNCHANGED videoVars

\* json_file.write(contents) and the close of the with block; return new_config
caller_close(t, w) ==
    /\ race[t].pc = "close"
    /\ w \in {"ok", "write_fail"}
    /\ WriteAllowed(w)
    /\ IF w = "ok"
       THEN /\ file' = WrittenOver(file, race[t].text)
            /\ race' = [Returned(t, TRUE) EXCEPT !.closer = t,
                                                 !.written = race[t].text]
            /\ UNCHANGED write_fails
       ELSE /\ race' = Returned(t, FALSE)
            /\ write_fails' = write_fails + 1
            /\ UNCHANGED file
    /\ UNCHANGED <<config, camera, sess, gpio16, faults, last, probe,
                   rotCall, md_frame, af_enabled, af, main, exposure_request>>
    /\ UNCHANGED settingVars /\ UNCHANGED threadVars /\ UNCHANGED videoVars

\* set_LED: if self.LED != LED: self.LED = LED; GPIO.output(16, ...)
led_begin(led) ==
    /\ ~InCall("led")
    /\ race.led.calls < MaxRaceCalls
    /\ IF LED # led
       THEN /\ LED' = led
            /\ gpio16' = (led # "off")
            /\ race' = Entered("led", led)
       ELSE UNCHANGED <<LED, gpio16, race>>
    /\ UNCHANGED <<config, file, write_fails, camera, sess, faults, last, probe,
                   rotCall, md_frame, af_enabled, af, main, exposure_request,
                   resolution, timestamp, sharpness_mode, sharpness_val, exposure_mode,
                   rotated_camera, frame_duration, video_buffer_size>>
    /\ UNCHANGED threadVars /\ UNCHANGED videoVars

\* a set_LED that leaves the dict as it is
led_mutate_skip ==
    /\ race.led.pc = "mutate"
    /\ race' = [race EXCEPT !.led.pc = "open"]
    /\ UNCHANGED <<config, file, write_fails, camera, sess, gpio16, faults, last, probe,
                   rotCall, md_frame, af_enabled, af, main, exposure_request>>
    /\ UNCHANGED settingVars /\ UNCHANGED threadVars /\ UNCHANGED videoVars

\* set_LED: new_config = self.config; new_config["LED"] = "off" (or "on")
led_mutate ==
    /\ race.led.pc = "mutate"
    /\ config' = [config EXCEPT !.LED = IF race.led.arg = "off" THEN "off" ELSE "on"]
    /\ race' = [race EXCEPT !.led.pc = "open"]
    /\ UNCHANGED <<file, write_fails, camera, sess, gpio16, faults, last, probe,
                   rotCall, md_frame, af_enabled, af, main, exposure_request>>
    /\ UNCHANGED settingVars /\ UNCHANGED threadVars /\ UNCHANGED videoVars

\* set_TimestampMode: self.timestamp = 0 (or 1)
ts_begin(ts) ==
    /\ ~InCall("ts")
    /\ race.ts.calls < MaxRaceCalls
    /\ timestamp' = IF ts = "off" THEN 0 ELSE 1
    /\ race' = Entered("ts", ts)
    /\ UNCHANGED <<config, file, write_fails, camera, sess, gpio16, faults, last, probe,
                   rotCall, md_frame, af_enabled, af, main, exposure_request,
                   resolution, LED, sharpness_mode, sharpness_val, exposure_mode,
                   rotated_camera, frame_duration, video_buffer_size>>
    /\ UNCHANGED threadVars /\ UNCHANGED videoVars

\* set_TimestampMode: new_config = self.config; new_config["timestamp"] = ...
ts_mutate ==
    /\ race.ts.pc = "mutate"
    /\ config' = [config EXCEPT !.timestamp = IF race.ts.arg = "off" THEN "off" ELSE "on"]
    /\ race' = [race EXCEPT !.ts.pc = "open"]
    /\ UNCHANGED <<file, write_fails, camera, sess, gpio16, faults, last, probe,
                   rotCall, md_frame, af_enabled, af, main, exposure_request>>
    /\ UNCHANGED settingVars /\ UNCHANGED threadVars /\ UNCHANGED videoVars

RaceConfigs ==
    {MkConfig("1640x1232", led, ts, "auto", 1, "auto", ExpList[1], 1, 0, 20, 5, 3) :
        led \in OnOff, ts \in OnOff}

InitRace ==
    /\ \E cfg \in RaceConfigs : Constructed(cfg)
    /\ loopPc = "idle"

LedBegin == \E led \in OnOff : led_begin(led)
TsBegin == \E ts \in OnOff : ts_begin(ts)
CallerOpen == \E t \in Callers, w \in WriteOutcomes : caller_open(t, w)
CallerDumps == \E t \in Callers : caller_dumps(t)
CallerClose == \E t \in Callers, w \in WriteOutcomes : caller_close(t, w)

NextRace ==
    \/ LedBegin
    \/ led_mutate
    \/ TsBegin
    \/ ts_mutate
    \/ CallerOpen
    \/ CallerDumps
    \/ CallerClose

SpecRace == InitRace /\ [][NextRace]_vars

----------------------------------------------------------------------------
(* SpecBuf: __init__ sizing the circular buffer, for the frame rates and     *)
(* durations a settings file can hold                                       *)

BufConfigs ==
    {MkConfig("1640x1232", "on", "on", "auto", 1, "auto", ExpList[1], 1, 0, rate, before, after) :
        rate \in 1..MaxRate, before \in 0..MaxBefore, after \in 0..MaxAfter}

\* __init__ has reached line 117
InitBuf ==
    /\ \E cfg \in BufConfigs : ConstructedSession(cfg)
    /\ video_buffer_size = 0
    /\ loopPc = "constructing"
    /\ probe = 0
    /\ af_enabled = FALSE
    /\ af = AfIdle
    /\ main = MainIdle

\* self.video_buffer_size = int(...); the encoder and its CircularOutput
size_video_buffer ==
    /\ loopPc = "constructing"
    /\ video_buffer_size' = VideoBufferSize(config)
    /\ loopPc' = "idle"
    /\ UNCHANGED <<config, file, write_fails, camera, sess, gpio16, faults, last, probe, auxVars, exposure_request,
                   image, stop_event, stopPc, stops, capture_faults, reinits, frames,
                   resolution, LED, timestamp, sharpness_mode, sharpness_val,
                   exposure_mode, rotated_camera, frame_duration>>
    /\ UNCHANGED videoVars

NextBuf == size_video_buffer

SpecBuf == InitBuf /\ [][NextBuf]_vars

----------------------------------------------------------------------------
(* SpecFind: find_closest_exposure on ascending lists *)

\* bisect_left(a, x): the binary search of the standard library, on
\* 0-based positions lo..hi
RECURSIVE bisect_left(_, _, _, _)
bisect_left(a, x, lo, hi) ==
    IF lo < hi
    THEN LET mid == (lo + hi) \div 2
         IN  IF a[mid + 1] < x
             THEN bisect_left(a, x, mid + 1, hi)
             ELSE bisect_left(a, x, lo, mid)
    ELSE lo

\* find_closest_exposure whose comparison lets a tie go to the larger member
find_closest_exposure_tie_up(ExpL, ExpValue) ==
    LET pos == bisect_left(ExpL, ExpValue, 0, Len(ExpL))
    IN  IF pos = 0 THEN ExpL[1]
        ELSE IF pos = Len(ExpL) THEN ExpL[Len(ExpL)]
        ELSE LET before == ExpL[pos]
                 after == ExpL[pos + 1]
             IN  IF after - ExpValue <= ExpValue - before THEN after ELSE before

find_closest_exposure(ExpL, ExpValue) ==
    LET pos == bisect_left(ExpL, ExpValue, 0, Len(ExpL))
    IN  IF pos = 0 THEN ExpL[1]
        ELSE IF pos = Len(ExpL) THEN ExpL[Len(ExpL)]
        ELSE LET before == ExpL[pos]
                 after == ExpL[pos + 1]
             IN  IF after - ExpValue < ExpValue - before THEN after ELSE before

\* the non-empty ascending lists over 1..MaxVal-1 of at most MaxLen members
AscendingLists ==
    {l \in UNION {[1..n -> 1..(MaxVal - 1)] : n \in 1..MaxLen} :
        \A i \in 1..(Len(l) - 1) : l[i] <= l[i + 1]}

InitFind ==
    /\ ConstructedSession(MkConfig("1640x1232", "on", "on", "auto", 1, "auto",
                                   ExpList[1], 1, 0, 20, 5, 3))
    /\ video_buffer_size = 170
    /\ loopPc = "idle"
    /\ af_enabled = FALSE
    /\ af = AfIdle
    /\ main = MainIdle
    /\ \E l \in AscendingLists, v \in 0..MaxVal :
         probe = [list |-> l, value |-> v, result |-> 0, done |-> FALSE]

\* ExpValue = self.find_closest_exposure(ExpList, metadata[control])
FindClosest ==
    /\ ~probe.done
    /\ probe' = [probe EXCEPT !.result = find_closest_exposure(probe.list, probe.value),
                              !.done = TRUE]
    /\ UNCHANGED <<config, file, write_fails, camera, sess, gpio16, faults, last,
                   auxVars, exposure_request>>
    /\ UNCHANGED settingVars /\ UNCHANGED threadVars /\ UNCHANGED videoVars

NextFind == FindClosest

SpecFind == InitFind /\ [][NextFind]_vars

----------------------------------------------------------------------------
(* Claims *)

Setters == {"set_resolution", "set_LED", "set_TimestampMode", "set_sharpness",
            "set_exposure", "auto_exposure", "set_camera_rotation"}

\* the setters that compare their argument with the current value first
GuardedSetters == {"set_resolution", "set_LED", "set_camera_rotation"}

\* the persisted record, reloaded, equals the in-memory record field for field
PersistedEqualsMemory == file # <<>> /\ loads(file) = config

\* C1 (as stated): immediately after any setter call returns successfully, the
\* persisted record equals the in-memory record, whatever calls preceded it.
C1_AfterAnySuccessfulSetter ==
    (last.op \in Setters /\ last.ok) => PersistedEqualsMemory

\* C1 (amended): immediately after a setter call that rewrote the persisted
\* record returns successfully, the persisted record equals the in-memory
\* record field for field, whatever calls preceded it.
C1_AfterSuccessfulRewrite ==
    (last.op \in Setters /\ last.ok /\ last.wrote) => PersistedEqualsMemory

\* C1 witness: a setter rewrote the record successfully after an earlier
\* write had failed, and the two records agree.
C1_Witness ==
    /\ last.op \in Setters /\ last.ok /\ last.wrote
    /\ write_fails > 0
    /\ PersistedEqualsMemory

\* C2 (as stated): for every setter, a call whose argument equals the
\* currently effective value rewrites nothing and issues no hardware control.
C2_EverySetterNoOp ==
    (last.op \in Setters /\ last.same) => (~last.wrote /\ last.hw = 0)

\* C2 (amended): for set_resolution, set_LED and set_camera_rotation, a call
\* whose argument equals the current value is a no-op: it changes neither the
\* persisted record, the in-memory record, the session nor the LED pin,
\* attempts no write and requests no restart.  set_TimestampMode,
\* set_sharpness, set_exposure and auto_exposure rewrite the persisted record
\* on every call, and the last three issue their hardware control on every
\* call.
C2_GuardedSetterNoOp ==
    [][/\ (last'.op \in GuardedSetters /\ last'.same)
            => /\ ~last'.wrote /\ last'.hw = 0 /\ ~last'.restart /\ last'.ok
               /\ UNCHANGED <<file, config, write_fails, sess, gpio16>>
       /\ (last'.op \in Setters \ GuardedSetters)
            => /\ last'.wrote
               /\ last'.op # "set_TimestampMode" => last'.hw = 1]_vars

\* C2 witness: set_camera_rotation was called with the current rotation after
\* an earlier write had failed, and did nothing.
C2_Witness ==
    /\ last.op = "set_camera_rotation" /\ last.same /\ ~last.wrote
    /\ write_fails > 0

\* the loop thread is between iterations or pulling a frame
LoopRunning == loopPc \in {"head", "capture", "stamp"}

\* exactly one injected failure so far, and stop() not called
SingleFailure == faults + write_fails = 1 /\ ~stop_event

\* C3: a single failure while pulling or converting a frame in the running
\* loop causes exactly one initialise_picamera call (every exception the
\* handler catches is answered by one reinitialisation, after which the
\* thread is back in its loop on an open, started session), and the loop then
\* publishes a new frame unless stop() is called or a further failure occurs.
C3_OneReinitThenResume ==
    /\ [](/\ LoopRunning => reinits = capture_faults
          /\ (LoopRunning /\ SingleFailure /\ reinits = 1)
                => CanCapture(camera))
    /\ (loopPc = "except" /\ SingleFailure)
          ~> (frames > 0 \/ stop_event \/ faults + write_fails > 1)

\* C3 witness: one frame pull failed, the session was reinitialised once and
\* the loop has published a frame from the new session.
C3_Witness ==
    /\ faults = 1 /\ capture_faults = 1 /\ reinits = 1 /\ ~stop_event
    /\ LoopRunning /\ frames > 0 /\ image # "None" /\ camera = 2 /\ CanCapture(camera)

\* C4: the capture loop thread never terminates unless stop() has been
\* called, whatever hardware faults occur, including a fault raised while
\* the session is being reinitialised.
C4_LoopAliveUntilStop ==
    loopPc \in {"done", "crashed"} => stop_event

\* C5: the second of two stop() calls raises no error and leaves the state
\* the first call left.
C5_SecondStopIsNoOp ==
    Len(stops) >= 2 => stops[2] = "ok"

\* C6: once stop() has returned and the loop thread has exited, no hardware
\* camera session is open.
C6_NoSessionAfterStop ==
    (Len(stops) >= 1 /\ stops[1] = "ok" /\ stopPc = "idle"
       /\ loopPc \in {"done", "crashed"})
    => \A i \in DOMAIN sess : sess[i].state # "open"

\* C7: a start_saving_video call made while a flush is armed is rejected with
\* an error and leaves the armed flush draining to its original target.
C7_SecondArmRejected ==
    [][(recording /\ StartSavingVideo)
        => (~last'.ok /\ recording' /\ fileoutput' = fileoutput)]_vars

\* C8: from start_video_stream until stop_video_stream or stop(), whenever
\* the controller's session is open the encoder is attached to it and feeds
\* the circular buffer.
C8_EncoderFeedsWhileOpen ==
    (streaming /\ ~stop_event /\ IsOpen(camera)) => sess[camera].encoding

Abs(x) == IF x < 0 THEN 0 - x ELSE x

Members(l) == {l[i] : i \in DOMAIN l}

\* C9: for every non-empty ascending list and query, find_closest_exposure
\* returns a member of the list at minimal distance from the query, the
\* smaller one when two members are equally distant; a query below the first
\* member gives the first, a query above the last gives the last.
C9_ClosestMember ==
    probe.done =>
        LET L == probe.list
            V == probe.value
            r == probe.result
        IN  /\ r \in Members(L)
            /\ \A m \in Members(L) : Abs(r - V) <= Abs(m - V)
            /\ \A m \in Members(L) : Abs(m - V) = Abs(r - V) => r <= m
            /\ V < L[1] => r = L[1]
            /\ V > L[Len(L)] => r = L[Len(L)]

\* C9 witness: the query lies midway between two different members and the
\* smaller of them was returned.
C9_Witness ==
    /\ probe.done
    /\ \E m \in Members(probe.list) :
         /\ m > probe.result
         /\ m - probe.value = probe.value - probe.result
         /\ m # probe.value

\* C10: the buffer capacity computed at construction is the integer part of
\* frame_rate * (before + after + 0.5); frame_rate 20, before 5, after 3
\* gives 170.
C10_BufferCapacity ==
    loopPc = "idle" =>
        LET twice == config.frame_rate
                       * (2 * (config.video_duration_before_motion
                               + config.video_duration_after_motion) + 1)
        IN  /\ 2 * video_buffer_size <= twice
            /\ twice < 2 * video_buffer_size + 2
            /\ (config.frame_rate = 20 /\ config.video_duration_before_motion = 5
                  /\ config.video_duration_after_motion = 3)
               => video_buffer_size = 170

\* C10 witness: constructed with frame_rate 20, before 5, after 3, the
\* capacity is 170.
C10_Witness ==
    /\ loopPc = "idle"
    /\ config.frame_rate = 20 /\ config.video_duration_before_motion = 5
    /\ config.video_duration_after_motion = 3
    /\ video_buffer_size = 170

OpenSessions == {i \in DOMAIN sess : sess[i].state = "open"}

\* C11: in every reachable state, under any interleaving of fault-triggered
\* reinitialisation in the capture loop, rotation changes and stop(), at most
\* one hardware camera session is open.
C11_AtMostOneSession == Cardinality(OpenSessions) <= 1

\* C11 witness: after a reinitialisation, a rotation change and a stop() call
\* that returned, one session is open and the controller holds no reference
\* to it.
C11_Witness ==
    /\ reinits >= 1 /\ rotCall.calls >= 1 /\ Len(stops) >= 1
    /\ camera = 0 /\ Cardinality(OpenSessions) = 1

\* a rotation call has stopped the device and not yet started it again
Reconfiguring == rotCall.pc \in {"rot_configure", "rot_start"}

\* a step of the loop thread that pulls a frame from self.camera or
\* reinitialises it
LoopUsesSession ==
    \/ RunCapture
    \/ init_close
    \/ InitOpen
    \/ InitExposure
    \/ InitSharpness

\* C12: while a caller thread is between the stop and the start of a
\* rotation reconfiguration, the loop thread neither pulls a frame from the
\* session nor reinitialises it.
C12_LoopWaitsForReconfiguration ==
    [][Reconfiguring => ~LoopUsesSession]_vars

\* C13: while the timestamp overlay is enabled, every frame get_md_image has
\* returned to a reader running beside the loop carries its timestamp.
C13_ReaderSeesStampedFrame ==
    (timestamp = 1 /\ md_frame # "None") => md_frame = "stamped"

\* the write of the call failed: the caller got the exception
WriteFailed(w) == w # "ok" /\ ~last'.ok

\* C14: when the write of the persisted record fails during a setter call,
\* the call ends with the error and the in-memory settings (the attribute and
\* the settings dict) hold the new value all the same.
C14_FailedWriteKeepsNewValue ==
    [][\A w \in WriteOutcomes \ {"ok"} :
        /\ \A res \in Resolutions :
              (last'.op = "set_resolution" /\ set_resolution(res, w)) =>
                  /\ WriteFailed(w)
                  /\ resolution' = res /\ config'.resolution = res
        /\ \A led \in OnOff :
              (last'.op = "set_LED" /\ set_LED(led, w)) =>
                  /\ WriteFailed(w)
                  /\ LED' = led /\ config'.LED = led
        /\ \A ts \in OnOff :
              (last'.op = "set_TimestampMode" /\ set_TimestampMode(ts, w)) =>
                  /\ WriteFailed(w)
                  /\ timestamp' = (IF ts = "off" THEN 0 ELSE 1)
                  /\ config'.timestamp = ts
        /\ \A val \in SharpVals, mode \in Modes :
              (last'.op = "set_sharpness" /\ set_sharpness(val, mode, w)) =>
                  /\ WriteFailed(w)
                  /\ sharpness_mode' = mode /\ config'.sharpness_mode = mode
                  /\ config'.sharpness_val = SharpnessApplied(val, mode)
        /\ \A e \in Shutters, g \in Gains :
              (last'.op = "set_exposure" /\ set_exposure(e, g, w)) =>
                  /\ WriteFailed(w)
                  /\ exposure_mode' = "off" /\ config'.exposure_mode = "off"
                  /\ config'.shutter_speed = e
        /\ (last'.op = "auto_exposure" /\ auto_exposure(w)) =>
                  /\ WriteFailed(w)
                  /\ exposure_mode' = "auto" /\ config'.exposure_mode = "auto"
        /\ \A rotation \in BOOLEAN :
              (last'.op = "set_camera_rotation" /\ set_camera_rotation(rotation, w)) =>
                  /\ WriteFailed(w)
                  /\ rotated_camera' = rotation
                  /\ config'.rotate_camera = (IF rotation THEN 1 ELSE 0)
      ]_vars

\* C14 witness: set_LED has just ended with a failed write; the dict holds
\* the new value and the file does not.
C14_Witness ==
    /\ last.op = "set_LED" /\ last.wrote /\ ~last.ok
    /\ config.LED = LED
    /\ file # dumps(config)

\* the step reconfigured no session and asked for no restart
NoStructuralReconfiguration ==
    /\ sess' = sess /\ camera' = camera
    /\ last'.hw = 0 /\ ~last'.restart

\* C15: set_resolution or set_camera_rotation called with the value that is
\* already current stops, configures and starts no device and requests no
\* process restart, in any state earlier setter calls lead to.
C15_CurrentValueNoReconfiguration ==
    [][\A w \in WriteOutcomes :
        /\ \A res \in Resolutions :
              (resolution = res /\ last'.op = "set_resolution" /\ set_resolution(res, w)) => NoStructuralReconfiguration
        /\ \A rotation \in BOOLEAN :
              (rotated_camera = rotation /\ last'.op = "set_camera_rotation"
                  /\ set_camera_rotation(rotation, w))
                  => NoStructuralReconfiguration
      ]_vars

\* C15 witness: after a rotation change and a failed write, set_resolution
\* called with the current resolution has returned.
C15_Witness ==
    /\ last.op = "set_resolution" /\ last.same /\ ~last.restart
    /\ IsOpen(camera) /\ sess[camera].fdl = 0 /\ write_fails > 0

\* C16: run_autofocus asks the hardware for completion on each attempt it
\* makes: it never has made more attempts than polls.
C16_PollsEachAttempt == af.i <= af.polls

\* the launcher has left its try statement
StartupOver == main.pc \in {"run", "serving", "crashed"}

\* the error the operator is to see: camera-not-found when the fault says
\* 'Camera is not enabled' and the interface check counts a camera, the
\* original error otherwise
ExpectedError ==
    IF main.fault = NotEnabled /\ main.cameras # "0"
    THEN "CameraNotFoundException"
    ELSE main.fault

\* C17: when startup has failed, the error application is started, and it
\* carries the camera-not-found error exactly when the fault is 'Camera is
\* not enabled' and the interface check reports the interface enabled, the
\* original error otherwise.
C17_ErrorAppSurfacesFault ==
    (StartupOver /\ main.fault # "none") =>
        (main.app = "error_app" /\ main.e = ExpectedError)

\* C18: whenever the controller's session is open and the timestamp overlay
\* is enabled, the pre-encode timestamp callback is installed on that
\* session, be it the session of startup or one a reinitialisation created.
C18_PreCallbackInstalled ==
    (IsOpen(camera) /\ timestamp = 1) => sess[camera].pre_callback

\* the last call a caller made was a set_exposure that returned, and the
\* exposure is still manual
ManualExposureRequested ==
    /\ exposure_request.set
    /\ last.op = "set_exposure" /\ last.ok
    /\ exposure_mode = "off"

\* C19: after set_exposure(s, g) has returned and while exposure stays
\* manual, the session the loop works with after a reinitialisation that
\* began later has exactly shutter s and analogue gain g applied.
C19_ReinitReappliesExposure ==
    (/\ ManualExposureRequested
     /\ reinits > exposure_request.reinits
     /\ LoopRunning /\ IsOpen(camera)) =>
        /\ sess[camera].ExposureTime = exposure_request.ExposureTime
        /\ sess[camera].AnalogueGain = exposure_request.AnalogueGain

\* the loop thread has left run(): by its loop test, or with the exception
\* its handler raised
LoopExited == loopPc \in {"done", "crashed"}

\* C20: once stop() has set the stop event, the loop thread eventually
\* leaves run(), wherever it was when the event was set.
C20_LoopExitsAfterStop == stop_event ~> LoopExited

\* C20 witness: with no hardware fault injected, stop() took the session away
\* under the loop, the loop reinitialised it and then left by its loop test.
C20_Witness ==
    /\ loopPc = "done" /\ stop_event
    /\ faults = 0 /\ write_fails = 0 /\ reinits >= 1
    /\ IsOpen(camera)

\* the persisted record is complete and names the given resolution
PersistedResolution(f, res) == f # <<>> /\ loads(f).resolution = res

\* C21: when set_resolution is called with a value that differs from the
\* current one, a restart of the process is requested only with the new
\* resolution already in the persisted record, and a failed write requests
\* no restart.
C21_PersistBeforeRestart ==
    [][\A res \in Resolutions, w \in WriteOutcomes :
        (resolution # res /\ last'.op = "set_resolution" /\ set_resolution(res, w)) =>
            /\ last'.restart => PersistedResolution(file', res)
            /\ w # "ok" => ~last'.restart
            /\ w = "ok" => last'.restart
      ]_vars

\* C21 witness: after an earlier failed write, set_resolution has changed the
\* resolution, written it and requested the restart.
C21_Witness ==
    /\ last.op = "set_resolution" /\ ~last.same /\ last.restart
    /\ PersistedResolution(file, resolution) /\ write_fails > 0

\* both threads have returned from their setters, neither with an exception,
\* and each changed its own field
BothReturnedOk ==
    /\ \A t \in Callers : ~InCall(t) /\ race[t].calls > 0 /\ race[t].ok

\* the persisted record names both new values
PersistedBothChanges ==
    /\ file # <<>>
    /\ loads(file).LED = race.led.arg
    /\ loads(file).timestamp = race.ts.arg

\* C22 (as stated): when set_LED and set_TimestampMode have run at the same
\* time on two threads and both returned successfully, the persisted record
\* contains both changes and equals the in-memory record.
C22_ConcurrentSettersBothPersisted ==
    (BothReturnedOk /\ race.overlapped) =>
        (PersistedBothChanges /\ PersistedEqualsMemory)

\* the file begins with the text of the setter whose write reached it last,
\* which names that setter's new value; bytes of a longer text written
\* before may follow it
PersistedLastWriter ==
    /\ race.written # <<>>
    /\ \/ file = race.written
       \/ \E n \in 1..2 : file = race.written \o <<<<"#trailing", n>>>>
    /\ race.closer = "led" => loads(race.written).LED = race.led.arg
    /\ race.closer = "ts" => loads(race.written).timestamp = race.ts.arg

\* C22 (amended): when both setters have returned successfully, the in-memory
\* record contains both changes and the file begins with the text of the
\* setter whose write completed last, which contains that setter's change
\* and may be followed by left-over bytes of an earlier, longer text; the
\* persisted record contains both changes and equals the in-memory record
\* if the calls did not overlap.
C22_LastCompletedWriteWins ==
    BothReturnedOk =>
        /\ config.LED = race.led.arg /\ LED = race.led.arg
        /\ config.timestamp = race.ts.arg
        /\ timestamp = (IF race.ts.arg = "off" THEN 0 ELSE 1)
        /\ PersistedLastWriter
        /\ ~race.overlapped => (PersistedBothChanges /\ PersistedEqualsMemory)

\* C22 witness: the two calls overlapped, both returned successfully, and
\* the persisted record lacks one of the two changes.
C22_Witness ==
    /\ BothReturnedOk /\ race.overlapped
    /\ PersistedLastWriter /\ ~PersistedBothChanges
    /\ config.LED = race.led.arg /\ config.timestamp = race.ts.arg

\* C23: after a rotation change through set_camera_rotation the session's
\* frame-duration limit still equals 1,000,000 / frame_rate microseconds, as
\* it did after initialisation, and its flip transform is the new rotation.
C23_RotationKeepsFrameDuration ==
    (last.op = "set_camera_rotation" /\ ~last.same /\ IsOpen(camera)) =>
        /\ sess[camera].fdl = FrameDuration(config)
        /\ sess[camera].flip = rotated_camera

\* a free session id is at hand whenever the loop opens a session
SessionAvailable ==
    loopPc = "init_open" => \E i \in DOMAIN sess : sess[i].state = "new"

====
